---- MODULE Spec2Model ----
(***************************************************************************)
(* One session of the GRPC client service                                  *)
(* (lib/grpc/clientservice/service.go): Service.Communicate with its       *)
(* inbound goroutine and outbound loop, and the grpcTransport adapter      *)
(* (Send, Close) over the buffered channel of replies.                     *)
(*                                                                         *)
(* Two threads of control: "in" is the goroutine started at line 52,       *)
(* "out" is the body of Communicate itself (the range loop and then the    *)
(* deferred c.Close).  A Go channel operation, a mutex operation and a     *)
(* call of the stream are one step each.                                   *)
(***************************************************************************)
EXTENDS Integers, Sequences, FiniteSets

\* const replyBufferSize (service.go:35)
replyBufferSize == 64

\* Replies Handle may still produce once the buffer is full: the model lets
\* Handle return replies until replyBufferSize + MaxExtra were accepted.
MaxExtra == 2

MaxReplies == replyBufferSize + MaxExtra

Threads == {"in", "out"}

\* No disconnect (a nil *proto.Disconnect, or no trailer yet).
NoDisconnect == [reason |-> "none", reconnect |-> FALSE]

\* proto.DisconnectNormal is declared in lib/proto; its reconnect hint is
\* not fixed by this file, so a session starts with either value (nr).
DisconnectNormal(nr) == [reason |-> "normal", reconnect |-> nr]

\* &proto.Disconnect{Reason: "error sending message", Reconnect: true}
DisconnectOverflow == [reason |-> "error sending message", reconnect |-> TRUE]

\* The disconnect instructions Handle can return.
EngineDisconnects ==
    { [reason |-> "engine", reconnect |-> b] : b \in BOOLEAN }

VARIABLES
    pc,            \* pc[t]: position of thread t
    disc,          \* disc[t]: argument of the Close call thread t is in
    rep,           \* reply returned by the last Handle (0: nil)
    instr,         \* disconnect returned by the last Handle (NoDisconnect: nil)
    reply,         \* reply the outbound loop received and is writing (0: none)
    replies,       \* the buffered channel: its queued replies
    chClosed,      \* the channel has been closed
    mu,            \* t.mu: the thread holding it, or "free"
    closed,        \* t.closed
    trailers,      \* the SetTrailer calls made on the stream, in order
    normalReconnect, \* the reconnect hint of proto.DisconnectNormal
    enqueued,      \* history: replies Send put on the channel, in order
    sent,          \* history: replies stream.Send wrote, in order
    entered,       \* history: the Close calls (thread, disconnect), in lock order
    closeRets,     \* history: results of the returned transport Close calls
    closeCalls,    \* history: closeCalls[t]: c.Close invocations by thread t
    chCloses,      \* history: number of close(t.replies) executed
    writeFails,    \* history: number of failed stream.Send calls
    sendErr,       \* history: the last transport.Send returned an error
    retErr,        \* what Communicate returns: "none" (running), "nil", "err"
    crashed        \* a goroutine panicked: the process is gone

vars == << pc, disc, rep, instr, reply, replies, chClosed, mu, closed, trailers,
           normalReconnect, enqueued, sent, entered, closeRets, closeCalls,
           chCloses, writeFails, sendErr, retErr, crashed >>

chan == << replies, chClosed >>
hist == << enqueued, sent, entered, closeRets, closeCalls, chCloses,
           writeFails, sendErr >>

Init ==
    /\ pc = [t \in Threads |-> IF t = "in" THEN "recv" ELSE "range"]
    /\ disc = [t \in Threads |-> NoDisconnect]
    /\ rep = 0
    /\ instr = NoDisconnect
    /\ reply = 0
    /\ replies = << >>
    /\ chClosed = FALSE
    /\ mu = "free"
    /\ closed = FALSE
    /\ trailers = << >>
    /\ normalReconnect \in BOOLEAN
    /\ enqueued = << >>
    /\ sent = << >>
    /\ entered = << >>
    /\ closeRets = << >>
    /\ closeCalls = [t \in Threads |-> 0]
    /\ chCloses = 0
    /\ writeFails = 0
    /\ sendErr = FALSE
    /\ retErr = "none"
    /\ crashed = FALSE

----------------------------------------------------------------------------
(* The channel of replies: make(chan *proto.Reply, replyBufferSize).       *)

\* Variant: the capacity test is off by one.
SendOutcomeOffByOne(q, cl) ==
    IF cl THEN "panic"
    ELSE IF Len(q) <= replyBufferSize THEN "ok"
    ELSE "full"

\* Variant: a send on a closed channel is accepted like any other.
SendOutcomeIgnoringClose(q, cl) ==
    IF Len(q) < replyBufferSize THEN "ok" ELSE "full"

\* select { case t.replies <- r: ... default: ... } on channel (q, cl):
\* a send on a closed channel panics, a send on a full one takes default.
SendOutcome(q, cl) ==
    IF cl THEN "panic"
    ELSE IF Len(q) < replyBufferSize THEN "ok"
    ELSE "full"

\* The channel after a successful send of r.
Enqueue(q, r) == Append(q, r)

\* Variant: the receive takes the newest reply.
ReceivedNewest(q) == q[Len(q)]

\* The value a receive takes from a non-empty channel, and what is left.
Received(q) == Head(q)
AfterReceive(q) == Tail(q)

\* Variant: Close does not test the flag.
NeverAlreadyClosed(c) == FALSE

\* `if t.closed { return nil }` of grpcTransport.Close.
AlreadyClosed(c) == c

\* Variant: the goroutine goes on reading after its c.Close.
AfterCloseContinue(t) == IF t = "in" THEN "recv" ELSE "returned"

\* What thread t does once its c.Close call has returned: the goroutine
\* returns, and Communicate (whose deferred call it was) returns.
AfterClose(t) == IF t = "in" THEN "exited" ELSE "returned"

\* client.Close(disconnect) of the session engine (lib/client): counted, and
\* forwarded to the transport's Close, which thread t now enters.
EngineClose(t, d) ==
    /\ closeCalls' = [closeCalls EXCEPT ![t] = @ + 1]
    /\ disc' = [disc EXCEPT ![t] = d]
    /\ pc' = [pc EXCEPT ![t] = "lock"]

----------------------------------------------------------------------------
(* The inbound goroutine (lines 52-77).                                    *)

\* stream.Recv() returned a command.
RecvCommand ==
    /\ ~crashed /\ pc["in"] = "recv"
    /\ pc' = [pc EXCEPT !["in"] = "handle"]
    /\ UNCHANGED << disc, rep, reply, chan, mu, closed, trailers,
                    normalReconnect, instr, hist, retErr, crashed >>

\* stream.Recv() returned io.EOF.
RecvEOF ==
    /\ ~crashed /\ pc["in"] = "recv"
    /\ EngineClose("in", DisconnectNormal(normalReconnect))
    /\ UNCHANGED << rep, reply, chan, mu, closed, trailers, normalReconnect, instr,
                    enqueued, sent, entered, closeRets, chCloses, writeFails,
                    sendErr, retErr, crashed >>

\* stream.Recv() returned another error.
RecvError ==
    /\ ~crashed /\ pc["in"] = "recv"
    /\ EngineClose("in", DisconnectNormal(normalReconnect))
    /\ UNCHANGED << rep, reply, chan, mu, closed, trailers, normalReconnect, instr,
                    enqueued, sent, entered, closeRets, chCloses, writeFails,
                    sendErr, retErr, crashed >>

\* The replies Handle can return now: nil (0), or the next reply.
HandleReplies ==
    {0} \cup (IF Len(enqueued) < MaxReplies THEN {Len(enqueued) + 1} ELSE {})

\* Variant: the loop closes with the normal disconnect, not the instruction.
HandleClosesNormal ==
    /\ ~crashed /\ pc["in"] = "handle"
    /\ \E r \in HandleReplies, d \in {NoDisconnect} \cup EngineDisconnects :
        /\ rep' = r
        /\ instr' = d
        /\ IF d # NoDisconnect
             THEN EngineClose("in", DisconnectNormal(normalReconnect))
             ELSE /\ pc' = [pc EXCEPT !["in"] = IF r # 0 THEN "send" ELSE "recv"]
                  /\ UNCHANGED << disc, closeCalls >>
    /\ UNCHANGED << reply, chan, mu, closed, trailers, normalReconnect,
                    enqueued, sent, entered, closeRets, chCloses, writeFails,
                    sendErr, retErr, crashed >>

\* rep, disconnect := c.Handle(cmd), and the branches on its results.
Handle ==
    /\ ~crashed /\ pc["in"] = "handle"
    /\ \E r \in HandleReplies, d \in {NoDisconnect} \cup EngineDisconnects :
        /\ rep' = r
        /\ instr' = d
        /\ IF d # NoDisconnect
             THEN EngineClose("in", d)
             ELSE /\ pc' = [pc EXCEPT !["in"] = IF r # 0 THEN "send" ELSE "recv"]
                  /\ UNCHANGED << disc, closeCalls >>
    /\ UNCHANGED << reply, chan, mu, closed, trailers, normalReconnect,
                    enqueued, sent, entered, closeRets, chCloses, writeFails,
                    sendErr, retErr, crashed >>

\* err = transport.Send(...): grpcTransport.Send, and `if err != nil`.
TransportSend ==
    /\ ~crashed /\ pc["in"] = "send"
    /\ LET o == SendOutcome(replies, chClosed) IN
        /\ crashed' = (o = "panic")
        /\ sendErr' = (o = "full")
        /\ replies' = IF o = "ok" THEN Enqueue(replies, rep) ELSE replies
        /\ enqueued' = IF o = "ok" THEN Append(enqueued, rep) ELSE enqueued
        /\ CASE o = "ok" ->
                  /\ pc' = [pc EXCEPT !["in"] = "recv"]
                  /\ UNCHANGED << disc, closeCalls >>
             [] o = "full" ->
                  EngineClose("in", DisconnectOverflow)
             [] OTHER ->
                  /\ pc' = [pc EXCEPT !["in"] = "panic"]
                  /\ UNCHANGED << disc, closeCalls >>
    /\ UNCHANGED << rep, reply, chClosed, mu, closed, trailers,
                    normalReconnect, instr, sent, entered, closeRets, chCloses,
                    writeFails, retErr >>

----------------------------------------------------------------------------
(* The outbound loop (lines 79-85) and the deferred c.Close (line 45).     *)

\* `for reply := range replies` receives a reply.
RangeReceive ==
    /\ ~crashed /\ pc["out"] = "range"
    /\ Len(replies) > 0
    /\ reply' = Received(replies)
    /\ replies' = AfterReceive(replies)
    /\ pc' = [pc EXCEPT !["out"] = "write"]
    /\ UNCHANGED << disc, rep, chClosed, mu, closed, trailers,
                    normalReconnect, instr, hist, retErr, crashed >>

\* Variant: the loop ends as soon as the channel is empty.
RangeDoneWhenEmpty ==
    /\ ~crashed /\ pc["out"] = "range"
    /\ Len(replies) = 0
    /\ retErr' = "nil"
    /\ EngineClose("out", DisconnectNormal(normalReconnect))
    /\ UNCHANGED << rep, reply, chan, mu, closed, trailers, normalReconnect, instr,
                    enqueued, sent, entered, closeRets, chCloses, writeFails,
                    sendErr, crashed >>

\* The range loop ends: the channel is closed and empty; `return nil`, and
\* the deferred c.Close(proto.DisconnectNormal) starts.
RangeDone ==
    /\ ~crashed /\ pc["out"] = "range"
    /\ Len(replies) = 0 /\ chClosed
    /\ retErr' = "nil"
    /\ EngineClose("out", DisconnectNormal(normalReconnect))
    /\ UNCHANGED << rep, reply, chan, mu, closed, trailers, normalReconnect, instr,
                    enqueued, sent, entered, closeRets, chCloses, writeFails,
                    sendErr, crashed >>

\* stream.Send(reply) succeeded.
StreamSendOK ==
    /\ ~crashed /\ pc["out"] = "write"
    /\ sent' = Append(sent, reply)
    /\ reply' = 0
    /\ pc' = [pc EXCEPT !["out"] = "range"]
    /\ UNCHANGED << disc, rep, chan, mu, closed, trailers, normalReconnect, instr,
                    enqueued, entered, closeRets, closeCalls, chCloses,
                    writeFails, sendErr, retErr, crashed >>

\* Variant: a failed write is dropped and the loop goes on.
StreamSendFailContinue ==
    /\ ~crashed /\ pc["out"] = "write"
    /\ writeFails' = writeFails + 1
    /\ reply' = 0
    /\ pc' = [pc EXCEPT !["out"] = "range"]
    /\ UNCHANGED << disc, rep, chan, mu, closed, trailers, normalReconnect, instr,
                    enqueued, sent, entered, closeRets, closeCalls, chCloses,
                    sendErr, retErr, crashed >>

\* stream.Send(reply) failed: `return err`, and the deferred c.Close starts.
StreamSendFail ==
    /\ ~crashed /\ pc["out"] = "write"
    /\ writeFails' = writeFails + 1
    /\ reply' = 0
    /\ retErr' = "err"
    /\ EngineClose("out", DisconnectNormal(normalReconnect))
    /\ UNCHANGED << rep, chan, mu, closed, trailers, normalReconnect, instr,
                    enqueued, sent, entered, closeRets, chCloses, sendErr,
                    crashed >>

----------------------------------------------------------------------------
(* grpcTransport.Close (lines 121-135), run by thread t.                   *)

\* Close returns result r to thread t; the deferred t.mu.Unlock() runs.
CloseReturn(t, r) ==
    /\ mu' = "free"
    /\ closeRets' = Append(closeRets, r)
    /\ pc' = [pc EXCEPT ![t] = AfterClose(t)]

\* t.mu.Lock()
CloseLock(t) ==
    /\ ~crashed /\ pc[t] = "lock"
    /\ mu = "free"
    /\ mu' = t
    /\ entered' = Append(entered, [thread |-> t, disconnect |-> disc[t]])
    /\ pc' = [pc EXCEPT ![t] = "check"]
    /\ UNCHANGED << disc, rep, reply, chan, closed, trailers,
                    normalReconnect, instr, enqueued, sent, closeRets, closeCalls,
                    chCloses, writeFails, sendErr, retErr, crashed >>

\* if t.closed { return nil }; t.closed = true
CloseCheck(t) ==
    /\ ~crashed /\ pc[t] = "check"
    /\ IF AlreadyClosed(closed)
         THEN /\ CloseReturn(t, "nil")
              /\ UNCHANGED closed
         ELSE /\ closed' = TRUE
              /\ pc' = [pc EXCEPT ![t] = "marshal"]
              /\ UNCHANGED << mu, closeRets >>
    /\ UNCHANGED << disc, rep, reply, chan, trailers, normalReconnect, instr,
                    enqueued, sent, entered, closeCalls, chCloses,
                    writeFails, sendErr, retErr, crashed >>

\* json.Marshal(disconnect) succeeded.
CloseMarshalOK(t) ==
    /\ ~crashed /\ pc[t] = "marshal"
    /\ pc' = [pc EXCEPT ![t] = "trailer"]
    /\ UNCHANGED << disc, rep, reply, chan, mu, closed, trailers,
                    normalReconnect, instr, hist, retErr, crashed >>

\* json.Marshal(disconnect) failed: return err.
CloseMarshalFail(t) ==
    /\ ~crashed /\ pc[t] = "marshal"
    /\ CloseReturn(t, "err")
    /\ UNCHANGED << disc, rep, reply, chan, closed, trailers,
                    normalReconnect, instr, enqueued, sent, entered, closeCalls,
                    chCloses, writeFails, sendErr, retErr, crashed >>

\* t.stream.SetTrailer(metadata.Pairs("disconnect", ...))
CloseSetTrailer(t) ==
    /\ ~crashed /\ pc[t] = "trailer"
    /\ trailers' = Append(trailers, disc[t])
    /\ pc' = [pc EXCEPT ![t] = "close"]
    /\ UNCHANGED << disc, rep, reply, chan, mu, closed, normalReconnect, instr,
                    hist, retErr, crashed >>

\* close(t.replies); return nil.  Closing a closed channel panics.
CloseChannel(t) ==
    /\ ~crashed /\ pc[t] = "close"
    /\ IF chClosed
         THEN /\ crashed' = TRUE
              /\ pc' = [pc EXCEPT ![t] = "panic"]
              /\ UNCHANGED << chClosed, chCloses, mu, closeRets >>
         ELSE /\ chClosed' = TRUE
              /\ chCloses' = chCloses + 1
              /\ CloseReturn(t, "nil")
              /\ UNCHANGED crashed
    /\ UNCHANGED << disc, rep, reply, replies, closed, trailers,
                    normalReconnect, instr, enqueued, sent, entered, closeCalls,
                    writeFails, sendErr, retErr >>

----------------------------------------------------------------------------
Next ==
    \/ RecvCommand
    \/ RecvEOF
    \/ RecvError
    \/ Handle
    \/ TransportSend
    \/ RangeReceive
    \/ RangeDone
    \/ StreamSendOK
    \/ StreamSendFail
    \/ \E t \in Threads : CloseLock(t)
    \/ \E t \in Threads : CloseCheck(t)
    \/ \E t \in Threads : CloseMarshalOK(t)
    \/ \E t \in Threads : CloseMarshalFail(t)
    \/ \E t \in Threads : CloseSetTrailer(t)
    \/ \E t \in Threads : CloseChannel(t)

Spec == Init /\ [][Next]_vars

----------------------------------------------------------------------------
(* Properties.                                                             *)

IsPrefix(s, t) ==
    /\ Len(s) <= Len(t)
    /\ \A i \in 1..Len(s) : s[i] = t[i]

Returned == pc["out"] = "returned"

\* C1: the replies written to the stream are, in order, a prefix of the
\* replies grpcTransport.Send put on the channel: nothing is written twice,
\* out of order, or without having been enqueued.
C1_WrittenIsPrefixOfEnqueued == IsPrefix(sent, enqueued)

C1_Witness == Len(sent) >= 2 /\ Len(enqueued) > Len(sent) /\ Len(replies) >= 1

\* C2: however the Close calls of a session interleave, the trailer is
\* attached at most once and the channel is closed at most once, and once a
\* Close call has returned both have happened exactly once.
C2_TerminatesExactlyOnce ==
    /\ Len(trailers) <= 1
    /\ chCloses <= 1
    /\ (Len(closeRets) >= 1 => Len(trailers) = 1 /\ chCloses = 1)

\* C3: the trailer of a session is the disconnect of the first Close call
\* to take the lock, and no later Close call attaches another one.
C3_TrailerIsFirstClose ==
    Len(trailers) >= 1 => trailers = << entered[1].disconnect >>

C3_Witness ==
    /\ Len(closeRets) = 2
    /\ Len(trailers) = 1
    /\ entered[2].disconnect # entered[1].disconnect

\* C4: a Send on the open channel holding replyBufferSize replies returns
\* the overflow error in its one step and leaves the channel as it was; on
\* the open channel holding fewer it appends the reply and succeeds.  The
\* channel never holds more than replyBufferSize replies and a Send is
\* never blocked.
C4_SendFailsFastWhenFull ==
    /\ [](Len(replies) <= replyBufferSize)
    /\ []((pc["in"] = "send" /\ ~crashed) => ENABLED TransportSend)
    /\ [][(pc["in"] = "send" /\ pc'["in"] # "send" /\ ~chClosed) =>
            IF Len(replies) >= replyBufferSize
              THEN /\ sendErr'
                   /\ replies' = replies
                   /\ enqueued' = enqueued
              ELSE /\ ~sendErr'
                   /\ replies' = Append(replies, rep)
                   /\ enqueued' = Append(enqueued, rep)
                   /\ pc'["in"] = "recv"]_vars

C4_Witness ==
    /\ sendErr
    /\ Len(replies) = replyBufferSize
    /\ Len(enqueued) > replyBufferSize

\* C5: when the Send of a reply fails with overflow, the inbound loop closes
\* the session with a disconnect that allows reconnecting, does not enqueue
\* the reply, and exits; the trailer of the session then allows reconnecting.
C5_OverflowTrailerAllowsReconnect ==
    (sendErr /\ pc["in"] = "exited") =>
        /\ disc["in"].reconnect
        /\ \A i \in 1..Len(enqueued) : enqueued[i] # rep
        /\ Len(trailers) = 1
        /\ trailers[1].reconnect

\* C6 as claimed: c.Close is invoked exactly once in a session, counting the
\* calls of the inbound loop and the deferred call.
C6_EngineCloseInvokedOnce ==
    /\ closeCalls["in"] + closeCalls["out"] <= 1
    /\ (Returned => closeCalls["in"] + closeCalls["out"] = 1)

\* C6 as amended: c.Close is invoked at most once by the inbound loop (when
\* it exits) and exactly once by the deferred call when Communicate returns:
\* at least once and at most twice in a session.
C6_EngineCloseInvokedOncePerLoop ==
    /\ closeCalls["in"] <= 1
    /\ closeCalls["out"] <= 1
    /\ (Returned => closeCalls["out"] = 1)
    /\ (pc["in"] = "exited" => closeCalls["in"] = 1)

C6_Witness ==
    /\ Returned
    /\ pc["in"] = "exited"
    /\ closeCalls["in"] + closeCalls["out"] = 2

\* C7: when stream.Recv fails (end of stream or another error) in a session
\* not closed before, the inbound loop closes it with the normal disconnect
\* and exits, and the trailer is the normal disconnect.
C7_RecvErrorGivesNormalTrailer ==
    ( /\ pc["in"] = "exited"
      /\ disc["in"] = DisconnectNormal(normalReconnect)
      /\ entered[1].thread = "in" ) =>
        trailers = << DisconnectNormal(normalReconnect) >>

\* C8: Communicate returns an error exactly when a stream.Send of the
\* outbound loop failed; it returns at the first failed write, with no
\* retry and no further write.
C8_ErrorOnlyFromFailedWrite ==
    /\ [](writeFails <= 1)
    /\ []((retErr = "err") <=> (writeFails > 0))
    /\ [](Returned => retErr \in {"nil", "err"})
    /\ [][writeFails > 0 => (sent' = sent /\ reply' = reply)]_vars

C8_Witness ==
    /\ Returned
    /\ retErr = "err"
    /\ Len(sent) >= 1
    /\ Len(replies) >= 1
    /\ pc["in"] = "exited"

\* C9: when Communicate has returned, on any path, the disconnect trailer
\* has been attached exactly once.
C9_TrailerAttachedOnceAtReturn ==
    Returned => Len(trailers) = 1

\* C10: once the channel of replies is closed no further enqueue succeeds,
\* and the channel is closed at most once in a session.
C10_NoEnqueueAfterClose ==
    /\ [](chCloses <= 1)
    /\ [][chClosed => (enqueued' = enqueued /\ Len(replies') <= Len(replies))]_vars

C10_Witness ==
    /\ chClosed
    /\ pc["in"] = "panic"
    /\ Len(enqueued) >= 1

\* C11: all grpcTransport.Close calls of a session return the same result:
\* nil every time when the disconnect serializes, the serialization error
\* every time when it does not.
C11_CloseCallsReturnSameResult ==
    \A i, j \in 1..Len(closeRets) : closeRets[i] = closeRets[j]

\* The inbound loop is in, or has returned from, the c.Close it called for
\* a disconnect instruction of Handle.
ClosedOnInstruction ==
    /\ instr # NoDisconnect
    /\ pc["in"] \in {"lock", "check", "marshal", "trailer", "close", "exited"}

\* C12 as claimed: when Handle returns a disconnect instruction the inbound
\* loop closes the session with exactly that instruction, enqueues no reply
\* for the command and exits, and the replies enqueued before are written
\* by the outbound loop before it exits.
C12_InstructionClosesAndAllWritten ==
    ClosedOnInstruction =>
        /\ disc["in"] = instr
        /\ \A i \in 1..Len(enqueued) : enqueued[i] # rep
        /\ (Returned => sent = enqueued)

\* C12 as amended: the same, the replies enqueued before being all written
\* before the outbound loop exits unless a stream.Send failed.
C12_InstructionClosesAndAllWrittenUnlessWriteFails ==
    ClosedOnInstruction =>
        /\ disc["in"] = instr
        /\ \A i \in 1..Len(enqueued) : enqueued[i] # rep
        /\ ((Returned /\ writeFails = 0) => sent = enqueued)

C12_Witness ==
    /\ ClosedOnInstruction
    /\ rep # 0
    /\ Returned
    /\ retErr = "nil"
    /\ Len(sent) >= 2
    /\ trailers = << instr >>

\* C13: Communicate returns without error only when the channel is closed
\* and empty and every reply Send accepted has been written to the stream.
C13_CleanReturnDropsNothing ==
    (Returned /\ retErr = "nil") =>
        /\ chClosed
        /\ replies = << >>
        /\ reply = 0
        /\ sent = enqueued

C13_Witness ==
    /\ Returned
    /\ retErr = "nil"
    /\ Len(enqueued) >= 2
    /\ sendErr

\* C14: once the inbound loop has terminated the session, the outbound loop
\* comes to see the closed, drained channel and Communicate returns: the
\* session is never left, with the inbound loop gone, in a state where
\* nothing more can happen and Communicate has not returned.
C14_DrainingEndsInReturn ==
    (pc["in"] = "exited" /\ ~ENABLED Next) => Returned

\* C15: Send and Close exclude each other on t.mu: grpcTransport.Send never
\* does its channel operation while a Close call holds the lock, between
\* its test of t.closed and its close of the channel.
C15_SendExcludedFromClose ==
    [][(pc["in"] = "send" /\ pc'["in"] # "send") => mu = "free"]_vars

\* C16: in every interleaving of the two loops, grpcTransport.Send is never
\* executed on a channel that has been closed (which panics).
C16_NoSendOnClosedChannel == pc["in"] # "panic"

\* C17: whenever no Close call is inside its critical section, t.closed is
\* true exactly when the trailer has been attached and the channel closed;
\* and the trailer is attached before the channel is closed.
C17_FlagMatchesTermination ==
    /\ (mu = "free" => (closed <=> (Len(trailers) = 1 /\ chClosed)))
    /\ (chClosed => Len(trailers) = 1)

\* C18: after Communicate has returned the inbound goroutine eventually
\* exits: the session is never left, with Communicate returned, in a state
\* where nothing more can happen and the goroutine has not exited.
C18_InboundExitsAfterReturn ==
    (Returned /\ ~ENABLED Next) => pc["in"] = "exited"

\* C19: the inbound loop calls c.Close at most once, and after that call,
\* whatever its cause, it does no further stream.Recv, Handle or Send.
C19_InboundStopsAfterClose ==
    /\ [](closeCalls["in"] <= 1)
    /\ [][closeCalls["in"] >= 1 =>
            /\ pc'["in"] \in {"lock", "check", "marshal", "trailer",
                              "close", "exited"}
            /\ closeCalls'["in"] = closeCalls["in"]
            /\ enqueued' = enqueued
            /\ rep' = rep
            /\ instr' = instr]_vars

C19_Witness ==
    /\ pc["in"] = "exited"
    /\ closeCalls["in"] = 1
    /\ instr # NoDisconnect
    /\ pc["out"] = "write"
    /\ Len(replies) >= 1

====
